---- MODULE Spec2Model ----
(***************************************************************************)
(* A model of restclient-cpp (source/restclient.cpp and                    *)
(* include/restclient-cpp/restclient.h): the static Get/Post calls, the    *)
(* shared setup and cleanup, the process-wide credential, and the body and *)
(* header callbacks the transfer engine invokes during a transfer.         *)
(*                                                                         *)
(* A std::string is a sequence of one-character strings.  A pointer is 0   *)
(* (NULL) or the positive id of the object it points to.  The transfer     *)
(* engine (libcurl) is the environment: it decides whether a handle can be *)
(* allocated, which status lines, header lines and body chunks arrive and  *)
(* in what order, and what the blocking transfer returns.                  *)
(*                                                                         *)
(* Spec is one thread making calls; SpecHeader the header stream of one    *)
(* transfer; SpecUpload the engine pulling from an UploadObject; SpecRace  *)
(* a second thread in SetAuth or ClearAuth while the first is in a call.   *)
(***************************************************************************)
EXTENDS Integers, Sequences, FiniteSets, TLC

VARIABLES
    UserPassword,  \* RestClient::UserPassword, the process-wide credential
    phase,         \* position of the calling thread: Idle, Configured, Executing, Finalized
    verb,          \* which entry point is running: "none", "Get", "Post"
    request,       \* the Request the caller passed
    response,      \* the Response local of Get/Post; at Finalized, the value returned
    curlLive,      \* engine: ids of easy handles allocated and not yet cleaned up
    opts,          \* engine: options set on the call's handle (option name -> value)
    httpCode,      \* engine: what CURLINFO_RESPONSE_CODE currently reports
    aborted,       \* engine: a callback made the transfer fail
    slistHeap,     \* engine: curl_slist id -> entries, for lists not yet freed
    formHeap,      \* engine: curl_httppost id -> entries, for lists not yet freed
    fileData,      \* the bytes written to the caller's output stream
    api,           \* how often Get/Post (cleanup included) has made each engine call
    delivered,     \* the body chunks the engine has handed to the write callback
    lastCall,      \* the last callback invocation: which, its data, size * nmemb, return value
    statusCount,   \* status lines received in the running transfer
    hdrCount,      \* other header lines received in the running transfer
    lastAuth,      \* the last SetAuth/ClearAuth the caller made
    curlResponse,  \* the local curlResponse of Get/Post: what curl_easy_perform returned
    uploadMem,     \* the caller's buffer an UploadObject was set up over
    upload,        \* the UploadObject: data (as an offset into uploadMem) and length
    pulls,         \* the read callback's invocations: requested size, return value, bytes copied
    progressSink,  \* the transferCallback the caller passed to Get (NULL: none)
    sinkInfo,      \* the last UpdateTransferInfo call the progress sink received
    authThread,    \* a second thread in SetAuth: its position, arguments, the credential before
    seen           \* what the call's reads of UserPassword saw, and where authThread was

vars == <<UserPassword, phase, verb, request, response, curlLive, opts, httpCode, curlResponse,
          aborted, slistHeap, formHeap, fileData, api, delivered, lastCall,
          statusCount, hdrCount, lastAuth, uploadMem, upload, pulls,
          progressSink, sinkInfo, authThread, seen>>

raceVars == <<authThread, seen>>

sinkVars == <<progressSink, sinkInfo>>

uploadVars == <<uploadMem, upload, pulls>>

(***************************************************************************)
(* Bounds of the model.                                                    *)
(***************************************************************************)
MaxChunks == 2
MaxStatusLines == 1
MaxHeaderLines == 2
MaxLine == 3
MaxUpload == 3
MaxPulls == 3

(***************************************************************************)
(* Program constants.                                                      *)
(***************************************************************************)
NULL == 0
CURLE_OK == "CURLE_OK"
CURLE_COULDNT_CONNECT == "CURLE_COULDNT_CONNECT"
CURLE_WRITE_ERROR == "CURLE_WRITE_ERROR"
CURLE_ABORTED_BY_CALLBACK == "CURLE_ABORTED_BY_CALLBACK"
CURLE_RECV_ERROR == "CURLE_RECV_ERROR"
npos == -1
kDefaultUserAgent == "restclient-cpp-mfr/VERSION"
CURLAUTH_BASIC == "CURLAUTH_BASIC"
kString == "kString"
kFile == "kFile"
FailedToQuery == <<"F","a","i","l","e","d"," ","t","o"," ","q","u","e","r","y",".">>
Present == <<"p","r","e","s","e","n","t">>
UserAgentKey == <<"U","s","e","r","-","A","g","e","n","t">>

EmptyMap == [k \in {} |-> <<>>]

\* Response_s(): code 0, empty body and headers, null file, curl and headerChunk.
Response_s ==
    [code |-> 0, body |-> <<>>, headers |-> EmptyMap, file |-> NULL,
     curl |-> NULL, headerChunk |-> NULL]

Request_s == [headers |-> EmptyMap, url |-> <<>>]

NoCalls ==
    [easy_init |-> 0, perform |-> 0, getinfo |-> 0, easy_cleanup |-> 0,
     slist_free_all |-> 0, global_cleanup |-> 0, formfree |-> 0]

NoCallback == [fn |-> "none", data |-> <<>>, len |-> 0, ret |-> 0]

NoSinkCall == [args |-> <<>>, ret |-> 0]

NoSetAuth == [pc |-> "out", username |-> <<>>, password |-> <<>>, before |-> <<>>]

NotSeen == [length |-> 0, lengthAt |-> "out", before |-> <<>>, value |-> <<>>]

(***************************************************************************)
(* std::string and std::map helpers.                                       *)
(***************************************************************************)
\* The characters of the model in ASCII order: the order of operator< on char.
Ascii == <<"\t", "\n", "\r", " ", "-", ".", ":", "A", "F", "U", "a", "b", "d", "e",
           "f", "g", "i", "k", "l", "n", "o", "p", "q", "r", "s", "t", "u", "v",
           "w", "x", "y">>

Ord(c) == CHOOSE i \in 1..Len(Ascii) : Ascii[i] = c

Min(a, b) == IF a < b THEN a ELSE b

\* std::string::operator<, the key order of std::map<std::string, ...>.
RECURSIVE StrLess(_, _)
StrLess(a, b) ==
    IF b = <<>> THEN FALSE
    ELSE IF a = <<>> THEN TRUE
    ELSE IF Ord(Head(a)) # Ord(Head(b)) THEN Ord(Head(a)) < Ord(Head(b))
    ELSE StrLess(Tail(a), Tail(b))

\* The keys of a std::map in the order begin()..end() visits them.
RECURSIVE MapKeys(_)
MapKeys(S) ==
    IF S = {} THEN <<>>
    ELSE LET k == CHOOSE x \in S : \A y \in S \ {x} : StrLess(x, y)
         IN  <<k>> \o MapKeys(S \ {k})

\* m[k] = v on a std::map: inserts the key or replaces its value.
MapPut(m, k, v) == [x \in DOMAIN m \cup {k} |-> IF x = k THEN v ELSE m[x]]

\* std::isspace in the "C" locale, over the characters of the model.
isspace(c) == c \in {" ", "\t", "\n", "\r"}

\* s.substr(pos, n) and s.substr(pos), with 0-based pos as in C++.
substr(s, pos, n) == SubSeq(s, pos + 1, Min(pos + n, Len(s)))

substrFrom(s, pos) == SubSeq(s, pos + 1, Len(s))

\* s.find_first_of(c): the 0-based position of the first c, or npos.
find_first_of(s, c) ==
    IF \E i \in 1..Len(s) : s[i] = c
    THEN (CHOOSE i \in 1..Len(s) : s[i] = c /\ \A j \in 1..(i - 1) : s[j] # c) - 1
    ELSE npos

\* ltrim: erase [begin, first character that is not a space).
ltrim(s) ==
    LET first == IF \E i \in 1..Len(s) : ~isspace(s[i])
                 THEN CHOOSE i \in 1..Len(s) :
                          ~isspace(s[i]) /\ \A j \in 1..(i - 1) : isspace(s[j])
                 ELSE Len(s) + 1
    IN  SubSeq(s, first, Len(s))

\* rtrim: erase [one past the last character that is not a space, end).
rtrim(s) ==
    LET last == IF \E i \in 1..Len(s) : ~isspace(s[i])
                THEN CHOOSE i \in 1..Len(s) :
                         ~isspace(s[i]) /\ \A j \in (i + 1)..Len(s) : isspace(s[j])
                ELSE 0
    IN  SubSeq(s, 1, last)

trim(s) == ltrim(rtrim(s))

(***************************************************************************)
(* SetAuth and ClearAuth.                                                  *)
(***************************************************************************)
\* SetAuthValue without the clear().
SetAuthValue_NoClear(username, password) ==
    UserPassword \o (username \o <<":">> \o password)

\* The value SetAuth leaves in UserPassword: clear(), then += username + ":" + password.
SetAuthValue(username, password) == <<>> \o (username \o <<":">> \o password)

\* clear() that leaves the string as it is.
ClearAuthValue_Keep == UserPassword

\* The value ClearAuth leaves in UserPassword.
ClearAuthValue == <<>>

(***************************************************************************)
(* CurlSharedEasyInit and CurlSharedEasyCleanUp.                           *)
(***************************************************************************)
NoOpts == [o \in {} |-> 0]

\* curl_easy_setopt: the handle's options with one more set.
setopt(o, name, value) == [x \in DOMAIN o \cup {name} |-> IF x = name THEN value ELSE o[x]]

\* The basic-auth options by the two reads of UserPassword: length is what
\* UserPassword.length() returned (line 44), cred what UserPassword.c_str() pointed
\* to when curl_easy_setopt copied it (line 47).
AuthOptionsRead(o, length, cred) ==
    IF length > 0
    THEN setopt(setopt(o, "HTTPAUTH", CURLAUTH_BASIC), "USERPWD", cred)
    ELSE o

\* The basic-auth options, set when the credential is not empty: both reads see
\* the same credential.
AuthOptions(o, cred) == AuthOptionsRead(o, Len(cred), cred)

\* The entries curl_slist_append adds while the loop walks request.headers:
\* one "first: second" per entry, in key order.
HeaderEntries(headers) ==
    LET keys == MapKeys(DOMAIN headers)
    IN  [i \in 1..Len(keys) |-> keys[i] \o <<":", " ">> \o headers[keys[i]]]

\* NoUserAgent with a lookup that ignores case.
NoUserAgent_AnyCase(headers) ==
    UserAgentKey \notin DOMAIN headers
        /\ <<"u","s","e","r","-","a","g","e","n","t">> \notin DOMAIN headers

\* request.headers.find( "User-Agent" ) == request.headers.end()
NoUserAgent(headers) == UserAgentKey \notin DOMAIN headers

\* The header and user-agent options of CurlSharedEasyInit; list is the local
\* headerChunk after the loop.
HeaderOptions(o, headers, list) ==
    IF Cardinality(DOMAIN headers) > 0
    THEN LET o1 == setopt(o, "HTTPHEADER", list)
         IN  IF NoUserAgent(headers) THEN setopt(o1, "USERAGENT", kDefaultUserAgent)
             ELSE o1
    ELSE setopt(o, "USERAGENT", kDefaultUserAgent)

\* The callback and URL options every call sets.
CommonOptions(o, url) ==
    LET o1 == setopt(o, "NOSIGNAL", 1)
        o2 == setopt(o1, "URL", url)
        o3 == setopt(o2, "WRITEFUNCTION", "CurlWriteCallback")
        o4 == setopt(o3, "WRITEDATA", "response")
        o5 == setopt(o4, "HEADERFUNCTION", "CurlHeaderCallback")
    IN  setopt(o5, "HEADERDATA", "response")

\* CurlSharedEasyInit( request, response ), where handle is what curl_easy_init
\* returned.  The result holds retVal, the response, the options set on the handle
\* and the header lists allocated.  The list is built in the function's local
\* headerChunk (line 39); response.headerChunk is not assigned.
CurlSharedEasyInitRead(req, resp, handle, length, cred) ==
    LET list == IF Cardinality(DOMAIN req.headers) > 0 THEN 1 ELSE NULL
        r1   == [resp EXCEPT !.curl = handle]
    IN  IF handle # NULL
        THEN [retVal   |-> TRUE,
              response |-> r1,
              opts     |-> CommonOptions(
                               HeaderOptions(AuthOptionsRead(NoOpts, length, cred),
                                             req.headers, list),
                               req.url),
              slists   |-> IF list # NULL THEN list :> HeaderEntries(req.headers)
                           ELSE EmptyMap]
        ELSE [retVal |-> FALSE, response |-> r1, opts |-> NoOpts, slists |-> EmptyMap]

\* CurlSharedEasyInit on a thread no other thread interferes with: the length
\* tested is the length of the credential then copied.
CurlSharedEasyInit(req, resp, handle) ==
    CurlSharedEasyInitRead(req, resp, handle, Len(UserPassword), UserPassword)

\* CleanUpFields that also resets the status code.
CleanUpFields_ResetCode(resp) ==
    [resp EXCEPT !.curl = NULL, !.headerChunk = NULL, !.code = 0]

\* CleanUpFields without the reset of the handle.
CleanUpFields_KeepCurl(resp) == [resp EXCEPT !.headerChunk = NULL]

\* The response fields CurlSharedEasyCleanUp resets.
CleanUpFields(resp) == [resp EXCEPT !.curl = NULL, !.headerChunk = NULL]

\* CurlSharedEasyCleanUp( response ), on the engine state it is called in.
CurlSharedEasyCleanUp(resp, live, heap, calls) ==
    LET c1 == IF resp.curl # NULL
              THEN [calls EXCEPT !.easy_cleanup = @ + 1] ELSE calls
        c2 == IF resp.headerChunk # NULL
              THEN [c1 EXCEPT !.slist_free_all = @ + 1] ELSE c1
    IN  [response  |-> CleanUpFields(resp),
         curlLive  |-> IF resp.curl # NULL THEN live \ {resp.curl} ELSE live,
         slistHeap |-> IF resp.headerChunk # NULL
                       THEN [i \in DOMAIN heap \ {resp.headerChunk} |-> heap[i]]
                       ELSE heap,
         api       |-> [c2 EXCEPT !.global_cleanup = @ + 1]]

(***************************************************************************)
(* The callbacks.                                                          *)
(***************************************************************************)
\* WritesToFile without the status check: the sink whenever one is attached.
WritesToFile_AnyStatus(resp, code) == resp.file # NULL

\* Whether CurlWriteCallback writes the chunk to response->file.
WritesToFile(resp, code) == resp.file # NULL /\ code = 200

\* BodyAppend that inserts the chunk at the front of the body.
BodyAppend_Front(body, data) == data \o body

\* response->body.append( data, size * nmemb )
BodyAppend(body, data) == body \o data

\* CurlWriteCallback that appends to the body what it writes to the sink.
CurlWriteCallback_Tee(data, resp, code, file) ==
    [ret |-> Len(data),
     response |-> [resp EXCEPT !.body = BodyAppend(resp.body, data)],
     file |-> IF WritesToFile(resp, code) THEN file \o data ELSE file]

\* CurlWriteCallback( data, size, nmemb, userdata ): code is what curl_easy_getinfo
\* reports, file the contents of the stream response->file points to.
CurlWriteCallback(data, resp, code, file) ==
    IF WritesToFile(resp, code)
    THEN [ret |-> Len(data), response |-> resp, file |-> file \o data]
    ELSE [ret |-> Len(data),
          response |-> [resp EXCEPT !.body = BodyAppend(resp.body, data)],
          file |-> file]

\* Separator that finds the last colon of the line.
Separator_Last(header) ==
    IF \E i \in 1..Len(header) : header[i] = ":"
    THEN (CHOOSE i \in 1..Len(header) :
              header[i] = ":" /\ \A j \in (i + 1)..Len(header) : header[j] # ":") - 1
    ELSE npos

\* header.find_first_of(":")
Separator(header) == find_first_of(header, ":")

\* The header map CurlHeaderCallback leaves for one header line.
HeaderMapAfter(headers, header) ==
    LET seperator == Separator(header)
    IN  IF seperator = npos
        THEN IF Len(trim(header)) = 0 THEN headers
             ELSE MapPut(headers, trim(header), Present)
        ELSE MapPut(headers, trim(substr(header, 0, seperator)),
                    trim(substrFrom(header, seperator + 1)))

\* CurlHeaderCallback( data, size, nmemb, userdata )
CurlHeaderCallback(header, r) ==
    [ret |-> Len(header),
     response |-> [r EXCEPT !.headers = HeaderMapAfter(r.headers, header)]]

\* CurlTransferCallback that does not hand the sink's return value on.
CurlTransferCallback_DropReturn(p, dltotal, dlnow, ultotal, ulnow, sinkRet) ==
    IF p # NULL
    THEN [ret |-> 0, call |-> [args |-> <<dltotal, dlnow, ultotal, ulnow>>, ret |-> sinkRet]]
    ELSE [ret |-> 0, call |-> NoSinkCall]

\* CurlTransferCallback( p, dltotal, dlnow, ultotal, ulnow ): p is the caller's
\* progress sink, sinkRet what its UpdateTransferInfo returns.  The result holds
\* the return value and the call the sink received.  The counters pass from
\* curl_off_t to long and the return value from int to size_t: the values of the
\* model are the same in each of these types.
CurlTransferCallback(p, dltotal, dlnow, ultotal, ulnow, sinkRet) ==
    IF p # NULL
    THEN [ret  |-> sinkRet,
          call |-> [args |-> <<dltotal, dlnow, ultotal, ulnow>>, ret |-> sinkRet]]
    ELSE [ret |-> 0, call |-> NoSinkCall]

\* An UploadObject over the buffer buf: data points to its first byte (offset 0)
\* and length is its size.
UploadObject(buf) == [data |-> 0, length |-> Len(buf)]

\* memcpy( data, u->data, n ): the n bytes at offset from of mem.  A byte past the
\* end of mem is not defined by the program: junk stands for whatever is there.
memcpy(mem, from, n, junk) ==
    [i \in 1..n |-> IF from + i <= Len(mem) THEN mem[from + i] ELSE junk[i]]

\* CurlReadCallback with copy_size = curl_size, whatever is left.
CurlReadCallback_NoMin(size, nmemb, u, mem, junk) ==
    LET curl_size == size * nmemb
        copy_size == curl_size
    IN  [ret  |-> copy_size,
         data |-> memcpy(mem, u.data, copy_size, junk),
         u    |-> [data |-> u.data + copy_size, length |-> u.length - copy_size]]

\* CurlReadCallback( data, size, nmemb, userdata ): u is the UploadObject userdata
\* points to, mem the buffer u->data points into.  The result holds the return
\* value, the bytes copied to data and the UploadObject afterwards.  copy_size is
\* at most u->length, so the size_t subtraction cannot wrap.
CurlReadCallback(size, nmemb, u, mem, junk) ==
    LET curl_size == size * nmemb
        copy_size == IF u.length < curl_size THEN u.length ELSE curl_size
    IN  [ret  |-> copy_size,
         data |-> memcpy(mem, u.data, copy_size, junk),
         u    |-> [data |-> u.data + copy_size, length |-> u.length - copy_size]]

(***************************************************************************)
(* What the caller and the engine may supply.                              *)
(***************************************************************************)
LowerUserAgentKey == <<"u","s","e","r","-","a","g","e","n","t">>
HeaderNames == {UserAgentKey, LowerUserAgentKey}
HeaderValues == {<<"v">>}
HeaderMaps == UNION {[D -> HeaderValues] : D \in SUBSET HeaderNames}
Requests == [headers : HeaderMaps, url : {<<"u">>}]
Users == {<<>>, <<"u">>}
Passwords == {<<>>, <<"p">>}
Forms ==
    {EmptyMap,
     <<"f">> :> [value |-> <<"x">>, type |-> kString],
     (<<"f">> :> [value |-> <<"x">>, type |-> kFile])
         @@ (<<"g">> :> [value |-> <<"y">>, type |-> kString])}
Pointers == {NULL, 1}
Chunks == {<<>>, <<"a">>, <<"b">>}
StatusCodes == {200, 404}
LineChars == {"k", ":", " "}
HeaderLines == UNION {[1..n -> LineChars] : n \in 0..MaxLine}
ProgressReturns == {0, 1}
Counters == {<<2, 1, 0, 0>>, <<2, 2, 4, 3>>}
BufferChars == {"a", "b"}
Buffers == UNION {[1..n -> BufferChars] : n \in 0..MaxUpload}
Sizes == {1, 2}
Nmembs == {1, 2}
RequestSizes == {size * nmemb : size \in Sizes, nmemb \in Nmembs}
MaxRequest == CHOOSE m \in RequestSizes : \A r \in RequestSizes : r <= m
Junk == [1..MaxRequest -> {"a", "?"}]

\* The status line the engine hands to the header callback ("HTTP/1.1 200 OK").
StatusLine(code) ==
    IF code = 200 THEN <<"2", "0", "0", " ", "O", "K", "\r", "\n">>
    ELSE <<"4", "0", "4", "\r", "\n">>

\* What the blocking transfer may return in the state the engine is in.
PerformResults ==
    IF aborted
    THEN IF lastCall.fn = "progress" THEN {CURLE_ABORTED_BY_CALLBACK}
         ELSE {CURLE_WRITE_ERROR}
    ELSE IF statusCount = 0 /\ hdrCount = 0 /\ delivered = <<>>
         THEN {CURLE_OK, CURLE_COULDNT_CONNECT}
         ELSE {CURLE_OK, CURLE_RECV_ERROR}

(***************************************************************************)
(* Init and the caller's steps.                                            *)
(***************************************************************************)
NoAuth == [set |-> FALSE, username |-> <<>>, password |-> <<>>]

InitCall ==
    /\ UserPassword = <<>>
    /\ phase = "Idle"
    /\ verb = "none"
    /\ request = Request_s
    /\ response = Response_s
    /\ curlLive = {}
    /\ opts = NoOpts
    /\ httpCode = 0
    /\ curlResponse = CURLE_OK
    /\ aborted = FALSE
    /\ slistHeap = EmptyMap
    /\ formHeap = EmptyMap
    /\ fileData = <<>>
    /\ api = NoCalls
    /\ delivered = <<>>
    /\ lastCall = NoCallback
    /\ statusCount = 0
    /\ hdrCount = 0
    /\ lastAuth = NoAuth
    /\ progressSink = NULL
    /\ sinkInfo = NoSinkCall
    /\ authThread = NoSetAuth
    /\ seen = NotSeen

Init ==
    /\ InitCall
    /\ uploadMem = <<>>
    /\ upload = UploadObject(uploadMem)
    /\ pulls = <<>>

callVars == <<phase, verb, request, response, curlLive, opts, httpCode, curlResponse,
              aborted, slistHeap, formHeap, fileData, api, delivered, lastCall,
              statusCount, hdrCount>>

SetAuth(username, password) ==
    /\ phase = "Idle"
    /\ UserPassword' = SetAuthValue(username, password)
    /\ lastAuth' = [set |-> TRUE, username |-> username, password |-> password]
    /\ UNCHANGED sinkVars
    /\ UNCHANGED raceVars
    /\ UNCHANGED uploadVars
    /\ UNCHANGED callVars

ClearAuth ==
    /\ phase = "Idle"
    /\ UserPassword' = ClearAuthValue
    /\ lastAuth' = NoAuth
    /\ UNCHANGED sinkVars
    /\ UNCHANGED raceVars
    /\ UNCHANGED uploadVars
    /\ UNCHANGED callVars

\* The progress options Get sets when transferCallback is not NULL.
ProgressOptions(o, transferCallback) ==
    IF transferCallback # NULL
    THEN setopt(setopt(setopt(o, "XFERINFOFUNCTION", "CurlTransferCallback"),
                       "XFERINFODATA", transferCallback),
                "NOPROGRESS", 0)
    ELSE o

\* if( outputFile != NULL ) response.file = outputFile
AttachFile(resp, outputFile) ==
    IF outputFile # NULL THEN [resp EXCEPT !.file = outputFile] ELSE resp

\* Get( request, outputFile, transferCallback ) from the position from up to the
\* call of curl_easy_perform (when CurlSharedEasyInit fails, to the return), given
\* the length and the value CurlSharedEasyInit reads from UserPassword.
GetConfigure(from, length, cred, req, outputFile, transferCallback, handle) ==
    LET init == CurlSharedEasyInitRead(req, Response_s, handle, length, cred)
    IN  /\ phase = from
        /\ verb' = "Get"
        /\ request' = req
        /\ api' = [NoCalls EXCEPT !.easy_init = 1]
        /\ curlLive' = IF handle # NULL THEN {handle} ELSE {}
        /\ slistHeap' = init.slists
        /\ IF init.retVal
           THEN /\ opts' = ProgressOptions(init.opts, transferCallback)
                /\ response' = AttachFile(init.response, outputFile)
                /\ phase' = "Configured"
           ELSE /\ opts' = init.opts
                /\ response' = init.response
                /\ phase' = "Finalized"
        /\ progressSink' = transferCallback
        /\ UNCHANGED sinkInfo
        /\ UNCHANGED uploadVars
        /\ UNCHANGED <<UserPassword, lastAuth, httpCode, curlResponse, aborted, formHeap,
                       fileData, delivered, lastCall, statusCount, hdrCount>>

\* Get( request, outputFile, transferCallback ) up to the call of curl_easy_perform;
\* when CurlSharedEasyInit fails, the whole call.  No other thread runs meanwhile.
GetBegin(req, outputFile, transferCallback, handle) ==
    /\ GetConfigure("Idle", Len(UserPassword), UserPassword,
                    req, outputFile, transferCallback, handle)
    /\ UNCHANGED raceVars

\* case kFile: CURLFORM_FILE; case kString: CURLFORM_COPYCONTENTS
FormOption(type) ==
    IF type = kFile THEN "CURLFORM_FILE"
    ELSE IF type = kString THEN "CURLFORM_COPYCONTENTS"
    ELSE "CURLFORM_NOTHING"

\* The entries curl_formadd appends while the loop walks form, in key order.
FormEntries(form) ==
    LET keys == MapKeys(DOMAIN form)
    IN  [i \in 1..Len(keys) |->
            [name |-> keys[i], option |-> FormOption(form[keys[i]].type),
             value |-> form[keys[i]].value]]

\* Post( request, form ) up to the call of curl_easy_perform; when
\* CurlSharedEasyInit fails, the whole call.
PostBegin(req, form, handle) ==
    LET init     == CurlSharedEasyInit(req, Response_s, handle)
        formPost == IF Cardinality(DOMAIN form) > 0 THEN 1 ELSE NULL
    IN  /\ phase = "Idle"
        /\ verb' = "Post"
        /\ request' = req
        /\ api' = [NoCalls EXCEPT !.easy_init = 1]
        /\ curlLive' = IF handle # NULL THEN {handle} ELSE {}
        /\ slistHeap' = init.slists
        /\ IF init.retVal
           THEN /\ opts' = IF formPost # NULL
                           THEN setopt(init.opts, "HTTPPOST", formPost) ELSE init.opts
                /\ formHeap' = IF formPost # NULL THEN formPost :> FormEntries(form)
                               ELSE EmptyMap
                /\ response' = init.response
                /\ phase' = "Configured"
           ELSE /\ opts' = init.opts
                /\ formHeap' = EmptyMap
                /\ response' = init.response
                /\ phase' = "Finalized"
        /\ progressSink' = NULL
        /\ UNCHANGED sinkInfo
        /\ UNCHANGED raceVars
        /\ UNCHANGED uploadVars
        /\ UNCHANGED <<UserPassword, lastAuth, httpCode, curlResponse, aborted,
                       fileData, delivered, lastCall, statusCount, hdrCount>>

\* curlResponse = curl_easy_perform( response.curl ): the transfer starts.
Perform ==
    /\ phase = "Configured"
    /\ phase' = "Executing"
    /\ api' = [api EXCEPT !.perform = @ + 1]
    /\ UNCHANGED sinkVars
    /\ UNCHANGED raceVars
    /\ UNCHANGED uploadVars
    /\ UNCHANGED <<UserPassword, lastAuth, verb, request, response, curlLive, opts,
                   httpCode, curlResponse, aborted, slistHeap, formHeap, fileData,
                   delivered, lastCall, statusCount, hdrCount>>

(***************************************************************************)
(* The engine's steps during the blocking transfer.                        *)
(***************************************************************************)
\* What the engine does with a write or header callback's return value: anything
\* but size * nmemb fails the transfer.
Consumed(len, ret) == ret = len

\* A header line arrives: the engine calls CURLOPT_HEADERFUNCTION with it.
DeliverHeader(line) ==
    LET cb == CurlHeaderCallback(line, response)
    IN  /\ response' = cb.response
        /\ lastCall' = [fn |-> "header", data |-> line, len |-> Len(line), ret |-> cb.ret]
        /\ aborted' = (aborted \/ ~Consumed(Len(line), cb.ret))

\* The status line of a response arrives, before any of the body: the engine
\* records the status code and hands the line to the header callback.
EngineStatusLine(code) ==
    /\ phase = "Executing"
    /\ ~aborted
    /\ statusCount < MaxStatusLines
    /\ delivered = <<>>
    /\ httpCode' = code
    /\ statusCount' = statusCount + 1
    /\ DeliverHeader(StatusLine(code))
    /\ UNCHANGED sinkVars
    /\ UNCHANGED raceVars
    /\ UNCHANGED uploadVars
    /\ UNCHANGED <<UserPassword, lastAuth, phase, verb, request, curlLive, opts,
                   curlResponse, slistHeap, formHeap, fileData, api, delivered, hdrCount>>

\* Another header line (or the blank line that ends the headers) arrives.
EngineHeaderLine(line) ==
    /\ phase = "Executing"
    /\ ~aborted
    /\ hdrCount < MaxHeaderLines
    /\ hdrCount' = hdrCount + 1
    /\ DeliverHeader(line)
    /\ UNCHANGED sinkVars
    /\ UNCHANGED raceVars
    /\ UNCHANGED uploadVars
    /\ UNCHANGED <<UserPassword, lastAuth, phase, verb, request, curlLive, opts,
                   httpCode, curlResponse, slistHeap, formHeap, fileData, api,
                   delivered, statusCount>>

\* A chunk of the body arrives: the engine calls CURLOPT_WRITEFUNCTION with it.
EngineBodyChunk(data) ==
    LET cb == CurlWriteCallback(data, response, httpCode, fileData)
    IN  /\ phase = "Executing"
        /\ ~aborted
        /\ Len(delivered) < MaxChunks
        /\ response' = cb.response
        /\ fileData' = cb.file
        /\ delivered' = Append(delivered, [data |-> data, code |-> httpCode])
        /\ lastCall' = [fn |-> "write", data |-> data, len |-> Len(data),
                        ret |-> cb.ret]
        /\ aborted' = (aborted \/ ~Consumed(Len(data), cb.ret))
        /\ UNCHANGED sinkVars
        /\ UNCHANGED raceVars
        /\ UNCHANGED uploadVars
        /\ UNCHANGED <<UserPassword, lastAuth, phase, verb, request, curlLive, opts,
                       httpCode, curlResponse, slistHeap, formHeap, api, statusCount,
                       hdrCount>>

\* The engine reports progress: it calls CURLOPT_XFERINFOFUNCTION, when one is set
\* and CURLOPT_NOPROGRESS is 0, and aborts the transfer on a non-zero return.
EngineProgress(counters, sinkRet) ==
    /\ phase = "Executing"
    /\ ~aborted
    /\ "XFERINFOFUNCTION" \in DOMAIN opts
    /\ "NOPROGRESS" \in DOMAIN opts /\ opts["NOPROGRESS"] = 0
    /\ LET cb == CurlTransferCallback(opts["XFERINFODATA"], counters[1], counters[2],
                                       counters[3], counters[4], sinkRet)
       IN  /\ lastCall' = [fn |-> "progress", data |-> counters, len |-> 0,
                           ret |-> cb.ret]
           /\ sinkInfo' = cb.call
           /\ aborted' = (cb.ret # 0)
    /\ UNCHANGED progressSink
    /\ UNCHANGED raceVars
    /\ UNCHANGED uploadVars
    /\ UNCHANGED <<UserPassword, lastAuth, phase, verb, request, response, curlLive,
                   opts, httpCode, curlResponse, slistHeap, formHeap, fileData, api,
                   delivered, statusCount, hdrCount>>

(***************************************************************************)
(* The rest of Get and Post, after curl_easy_perform has returned.         *)
(***************************************************************************)
\* SetResult with the failure text appended to the body instead of assigned.
SetResult_AppendText(resp, result, code) ==
    IF result # CURLE_OK
    THEN [resp EXCEPT !.body = @ \o FailedToQuery, !.code = -1]
    ELSE [resp EXCEPT !.code = code]

\* The if( curlResponse != CURLE_OK ) ... else ... of Get and Post: code is what
\* curl_easy_getinfo would report.
SetResult(resp, result, code) ==
    IF result # CURLE_OK
    THEN [resp EXCEPT !.body = FailedToQuery, !.code = -1]
    ELSE [resp EXCEPT !.code = code]

\* The engine calls the orchestrator makes in that if: curl_easy_getinfo on success.
ResultCalls(calls, result) ==
    IF result # CURLE_OK THEN calls ELSE [calls EXCEPT !.getinfo = @ + 1]

\* curl_easy_perform returns result; Get or Post sets the status and the body,
\* cleans up and returns the response.
Finish(result) ==
    LET r1 == SetResult(response, result, httpCode)
        cl == CurlSharedEasyCleanUp(r1, curlLive, slistHeap, ResultCalls(api, result))
    IN  /\ phase = "Executing"
        /\ curlResponse' = result
        /\ response' = cl.response
        /\ curlLive' = cl.curlLive
        /\ slistHeap' = cl.slistHeap
        /\ api' = cl.api
        /\ phase' = "Finalized"
        /\ UNCHANGED sinkVars
        /\ UNCHANGED raceVars
        /\ UNCHANGED uploadVars
        /\ UNCHANGED <<UserPassword, lastAuth, verb, request, opts, httpCode, aborted,
                       formHeap, fileData, delivered, lastCall, statusCount, hdrCount>>

GetFinish(result) == verb = "Get" /\ Finish(result)

PostFinish(result) == verb = "Post" /\ Finish(result)

\* The caller has the returned response; the thread is between calls again.  The
\* engine variables account for one call: the next call starts them afresh.
Return ==
    /\ phase = "Finalized"
    /\ phase' = "Idle"
    /\ verb' = "none"
    /\ request' = Request_s
    /\ response' = Response_s
    /\ curlLive' = {}
    /\ opts' = NoOpts
    /\ httpCode' = 0
    /\ curlResponse' = CURLE_OK
    /\ aborted' = FALSE
    /\ slistHeap' = EmptyMap
    /\ formHeap' = EmptyMap
    /\ fileData' = <<>>
    /\ api' = NoCalls
    /\ delivered' = <<>>
    /\ lastCall' = NoCallback
    /\ statusCount' = 0
    /\ hdrCount' = 0
    /\ progressSink' = NULL
    /\ sinkInfo' = NoSinkCall
    /\ seen' = NotSeen
    /\ UNCHANGED authThread
    /\ UNCHANGED uploadVars
    /\ UNCHANGED <<UserPassword, lastAuth>>

Next ==
    \/ \E u \in Users, p \in Passwords : SetAuth(u, p)
    \/ ClearAuth
    \/ \E req \in Requests, f \in Pointers, t \in Pointers, h \in Pointers :
           GetBegin(req, f, t, h)
    \/ \E req \in Requests, form \in Forms, h \in Pointers : PostBegin(req, form, h)
    \/ Perform
    \/ \E code \in StatusCodes : EngineStatusLine(code)
    \/ \E data \in Chunks : EngineBodyChunk(data)
    \/ \E c \in Counters, r \in ProgressReturns : EngineProgress(c, r)
    \/ \E result \in PerformResults : GetFinish(result)
    \/ \E result \in PerformResults : PostFinish(result)
    \/ Return

Spec == Init /\ [][Next]_vars

\* The header stream of one transfer: a plain Get during which the engine delivers
\* any header lines.
NextHeader ==
    \/ GetBegin(Request_s, NULL, NULL, 1)
    \/ Perform
    \/ \E line \in HeaderLines : EngineHeaderLine(line)
    \/ GetFinish(CURLE_OK)
    \/ Return

SpecHeader == Init /\ [][NextHeader]_vars

(***************************************************************************)
(* The upload source: an UploadObject and the engine pulling from it.      *)
(***************************************************************************)
\* The state after an UploadObject has been set up over one of the buffers.
InitUpload ==
    /\ InitCall
    /\ uploadMem \in Buffers
    /\ upload = UploadObject(uploadMem)
    /\ pulls = <<>>

\* The engine asks for up to size * nmemb bytes: it calls CURLOPT_READFUNCTION.
EngineRead(size, nmemb, junk) ==
    LET cb == CurlReadCallback(size, nmemb, upload, uploadMem, junk)
    IN  /\ Len(pulls) < MaxPulls
        /\ upload' = cb.u
        /\ pulls' = Append(pulls, [requested |-> size * nmemb, ret |-> cb.ret,
                                   data |-> cb.data])
        /\ UNCHANGED <<uploadMem, UserPassword, lastAuth>>
        /\ UNCHANGED raceVars
        /\ UNCHANGED sinkVars
        /\ UNCHANGED callVars

NextUpload ==
    \E size \in Sizes, nmemb \in Nmembs, junk \in Junk : EngineRead(size, nmemb, junk)

SpecUpload == InitUpload /\ [][NextUpload]_vars

(***************************************************************************)
(* A second thread in SetAuth or ClearAuth while the first is in a call.   *)
(* UserPassword has no lock: the steps are the accesses to it, in any      *)
(* order the two threads can make them.  A read made while the append is   *)
(* under way is a data race: it may see any part of what is appended.      *)
(***************************************************************************)
\* The second thread enters SetAuth: UserPassword.clear().
SetAuthClear(username, password) ==
    /\ authThread.pc = "out"
    /\ authThread' = [pc |-> "cleared", username |-> username, password |-> password,
                      before |-> UserPassword]
    /\ UserPassword' = ClearAuthValue
    /\ UNCHANGED <<lastAuth, seen>>
    /\ UNCHANGED callVars
    /\ UNCHANGED sinkVars
    /\ UNCHANGED uploadVars

\* The second thread starts on UserPassword += username + ":" + password.
SetAuthAppendBegin ==
    /\ authThread.pc = "cleared"
    /\ authThread' = [authThread EXCEPT !.pc = "appending"]
    /\ UNCHANGED <<UserPassword, lastAuth, seen>>
    /\ UNCHANGED callVars
    /\ UNCHANGED sinkVars
    /\ UNCHANGED uploadVars

\* The append is done and SetAuth returns.
SetAuthAppendEnd ==
    /\ authThread.pc = "appending"
    /\ UserPassword' = UserPassword \o (authThread.username \o <<":">> \o authThread.password)
    /\ lastAuth' = [set |-> TRUE, username |-> authThread.username,
                    password |-> authThread.password]
    /\ authThread' = [authThread EXCEPT !.pc = "out"]
    /\ UNCHANGED seen
    /\ UNCHANGED callVars
    /\ UNCHANGED sinkVars
    /\ UNCHANGED uploadVars

\* The second thread runs ClearAuth: the one UserPassword.clear().
ThreadClearAuth ==
    /\ authThread.pc = "out"
    /\ UserPassword' = ClearAuthValue
    /\ lastAuth' = NoAuth
    /\ authThread' = NoSetAuth
    /\ UNCHANGED seen
    /\ UNCHANGED callVars
    /\ UNCHANGED sinkVars
    /\ UNCHANGED uploadVars

\* What a read of UserPassword by the first thread may see: its value, or, while
\* the second thread is appending to it, any leading part of what is appended.
Readable ==
    IF authThread.pc = "appending"
    THEN LET new == authThread.username \o <<":">> \o authThread.password
         IN  {SubSeq(new, 1, n) : n \in 0..Len(new)}
    ELSE {UserPassword}

\* The first thread, in CurlSharedEasyInit, tests UserPassword.length() > 0 and
\* sees the length of cred.
ReadAuthLength(cred) ==
    /\ phase = "Idle"
    /\ phase' = "AuthTested"
    /\ seen' = [length |-> Len(cred), lengthAt |-> authThread.pc,
                before |-> authThread.before, value |-> <<>>]
    /\ UNCHANGED <<UserPassword, lastAuth, authThread, verb, request, response, curlLive,
                   opts, httpCode, curlResponse, aborted, slistHeap, formHeap, fileData,
                   api, delivered, lastCall, statusCount, hdrCount>>
    /\ UNCHANGED sinkVars
    /\ UNCHANGED uploadVars

\* The first thread goes on from the test: if the length was not 0 it sets the auth
\* options, curl_easy_setopt copying cred from UserPassword.c_str(); then the
\* rest of the configuration.
ReadAuthValue(cred) ==
    /\ GetConfigure("AuthTested", seen.length, cred, Request_s, NULL, NULL, 1)
    /\ seen' = [seen EXCEPT !.value = IF seen.length > 0 THEN cred ELSE <<>>]
    /\ UNCHANGED authThread

NextRace ==
    \/ \E u \in Users, p \in Passwords : SetAuthClear(u, p)
    \/ SetAuthAppendBegin
    \/ SetAuthAppendEnd
    \/ ThreadClearAuth
    \/ \E cred \in Readable : ReadAuthLength(cred)
    \/ \E cred \in Readable : ReadAuthValue(cred)
    \/ Perform
    \/ GetFinish(CURLE_OK)
    \/ Return

SpecRace == Init /\ [][NextRace]_vars

(***************************************************************************)
(* The claims.                                                             *)
(***************************************************************************)
\* A call has just returned; AllocationFailed: without a handle, so without a
\* transfer; TransferFailed: after curl_easy_perform returned an error.
Returned == phase = "Finalized"

AllocationFailed == Returned /\ api.perform = 0

TransferDone == Returned /\ api.perform = 1

TransferFailed == TransferDone /\ curlResponse # CURLE_OK

\* C1: every call of Get or Post, on every exit path (transport success, transport
\* failure, handle allocation failure), has run the cleanup step (handle release
\* and the engine's global shutdown) exactly once when it returns.
C1_CleanupOnEveryExit ==
    Returned => api.global_cleanup = 1 /\ curlLive = {}

\* C2: a call made with a non-empty header mapping has released the header list it
\* built exactly once when it returns, after a successful and after a failed
\* transfer; no header list it allocated is still allocated.
C2_HeaderListReleased ==
    TransferDone /\ DOMAIN request.headers # {}
        => api.slist_free_all = 1 /\ DOMAIN slistHeap = {}

\* C3: in the response a call returns (after success, transport failure or
\* allocation failure) the engine handle and the header-list handle are null, as
\* they are in a freshly constructed response.
C3_HandlesNullOutsideCall ==
    /\ Response_s.curl = NULL /\ Response_s.headerChunk = NULL
    /\ phase \in {"Idle", "Finalized"}
           => response.curl = NULL /\ response.headerChunk = NULL

\* A call has returned after a transfer, on which the handle was released.
C3_Witness ==
    Returned /\ api.easy_cleanup = 1 /\ response.curl = NULL /\ response.code = 200

\* C4: whenever the blocking transfer returns a non-success result, whatever the
\* cause, the returned response has status -1 and body "Failed to query.", and the
\* orchestrator has not called the status-code getter.
C4_TransportFailure ==
    TransferFailed
        => response.code = -1 /\ response.body = FailedToQuery /\ api.getinfo = 0

\* A transfer failed after body chunks had been appended to the body.
C4_Witness ==
    /\ TransferFailed
    /\ curlResponse = CURLE_RECV_ERROR
    /\ response.file = NULL
    /\ \E i \in 1..Len(delivered) : delivered[i].data # <<>>
    /\ response.body = FailedToQuery

\* C5: when the handle cannot be allocated the call returns at once, without a
\* transfer, a response whose status is the failure sentinel -1.
C5_AllocationFailureSentinel ==
    AllocationFailed => response.code = -1

\* The concatenation, in delivery order, of the data of a sequence of deliveries.
RECURSIVE Concat(_)
Concat(ds) == IF ds = <<>> THEN <<>> ELSE Head(ds).data \o Concat(Tail(ds))

At200(d) == d.code = 200

NotAt200(d) == d.code # 200

SinkAttached == verb = "Get" /\ response.file # NULL

\* C6, as claimed: in every state of a Get call with an output sink attached, and
\* in the response it returns, the body buffer is empty.
C6_BodyEmptyWithSink == SinkAttached => response.body = <<>>

\* C6, amended: in a Get call with a sink attached, the sink holds the chunks
\* delivered while the engine's status was 200 and the body the chunks delivered at
\* any other status, each chunk in exactly one of the two; a failed transfer
\* returns the body "Failed to query.".  So the body is empty as long as every
\* chunk arrived at status 200 and the transfer has not failed.
C6_BodyAndSinkSplitByStatus ==
    SinkAttached =>
        /\ fileData = Concat(SelectSeq(delivered, At200))
        /\ response.body = IF TransferFailed THEN FailedToQuery
                           ELSE Concat(SelectSeq(delivered, NotAt200))
        /\ (\A i \in 1..Len(delivered) : delivered[i].code = 200) /\ ~TransferFailed
               => response.body = <<>>

\* A Get with a sink attached has returned successfully with status 404: its two
\* chunks are in the body and the sink is empty.
C6_Witness ==
    /\ SinkAttached /\ TransferDone /\ ~TransferFailed
    /\ response.code = 404
    /\ Len(delivered) = 2
    /\ response.body = <<"a", "b">>
    /\ fileData = <<>>

\* C7, as claimed: the body of the response a call without an output sink returns
\* is the concatenation of the delivered chunks in delivery order.
C7_BodyIsConcatenation ==
    TransferDone /\ response.file = NULL => response.body = Concat(delivered)

\* C7, amended: in a call without an output sink the body is the concatenation of
\* the chunks delivered so far, in delivery order, throughout the transfer and in
\* the response returned after a successful transfer; after a failed transfer the
\* returned body is "Failed to query." instead.
C7_BodyIsConcatenationOnSuccess ==
    phase \in {"Executing", "Finalized"} /\ response.file = NULL /\ api.perform = 1
        => IF TransferFailed THEN response.body = FailedToQuery
           ELSE response.body = Concat(delivered)

\* A call without a sink has returned successfully the body "ab", delivered as the
\* chunks "a" and "b".
C7_Witness ==
    /\ TransferDone /\ ~TransferFailed /\ response.file = NULL
    /\ Len(delivered) = 2 /\ delivered[1].data = <<"a">> /\ delivered[2].data = <<"b">>
    /\ response.body = <<"a", "b">>

\* The call's handle is configured: between CurlSharedEasyInit and cleanup.
Configured == phase \in {"Configured", "Executing"}

IsSet(option) == option \in DOMAIN opts

\* The entries of the header list the handle's CURLOPT_HTTPHEADER points to.
SentHeaders ==
    IF IsSet("HTTPHEADER") /\ opts["HTTPHEADER"] \in DOMAIN slistHeap
    THEN {slistHeap[opts["HTTPHEADER"]][i] :
              i \in 1..Len(slistHeap[opts["HTTPHEADER"]])}
    ELSE {}

\* C8: a call whose header mapping has no key exactly "User-Agent" (the empty
\* mapping too) sets the default user-agent option; one whose mapping has the key
\* sets no user-agent option and sends the caller's value in the header list.
C8_DefaultUserAgent ==
    Configured =>
        IF UserAgentKey \in DOMAIN request.headers
        THEN /\ ~IsSet("USERAGENT")
             /\ (UserAgentKey \o <<":", " ">> \o request.headers[UserAgentKey])
                    \in SentHeaders
        ELSE IsSet("USERAGENT") /\ opts["USERAGENT"] = kDefaultUserAgent

\* A call is configured whose mapping has "user-agent" but not "User-Agent".
C8_Witness ==
    /\ Configured
    /\ DOMAIN request.headers = {LowerUserAgentKey}
    /\ IsSet("USERAGENT")
    /\ Cardinality(SentHeaders) = 1

\* C9: a call sets the basic-auth options, with the credential
\* "username:password" of the most recent SetAuth, exactly when a SetAuth has
\* occurred with no ClearAuth after it; the credential is unchanged by calls.
C9_AuthFollowsLastSetAuth ==
    /\ UserPassword = IF lastAuth.set
                      THEN lastAuth.username \o <<":">> \o lastAuth.password
                      ELSE <<>>
    /\ Configured =>
           /\ IsSet("USERPWD") <=> lastAuth.set
           /\ IsSet("HTTPAUTH") <=> lastAuth.set
           /\ lastAuth.set =>
                  /\ opts["HTTPAUTH"] = CURLAUTH_BASIC
                  /\ opts["USERPWD"] = lastAuth.username \o <<":">> \o lastAuth.password

\* A call is configured with the credential "u:p".
C9_Witness ==
    /\ Configured
    /\ lastAuth = [set |-> TRUE, username |-> <<"u">>, password |-> <<"p">>]
    /\ opts["USERPWD"] = <<"u", ":", "p">>

\* t is s without its leading and trailing whitespace.
IsTrimOf(t, s) ==
    \E a, b \in 0..Len(s) :
        /\ a + b <= Len(s)
        /\ t = SubSeq(s, a + 1, Len(s) - b)
        /\ \A i \in 1..a : s[i] \in {" ", "\t", "\r", "\n"}
        /\ \A i \in (Len(s) - b + 1)..Len(s) : s[i] \in {" ", "\t", "\r", "\n"}
        /\ t # <<>> => /\ t[1] \notin {" ", "\t", "\r", "\n"}
                       /\ t[Len(t)] \notin {" ", "\t", "\r", "\n"}

\* new is old with key k set to v and every other key as it was.
IsPutOf(new, old, k, v) ==
    /\ DOMAIN new = DOMAIN old \cup {k}
    /\ new[k] = v
    /\ \A x \in DOMAIN old \ {k} : new[x] = old[x]

\* What the claim says the header map is after one line, given the map before.
HeaderLineRule(old, line, new) ==
    IF \A i \in 1..Len(line) : line[i] # ":"
    THEN IF IsTrimOf(<<>>, line) THEN new = old
         ELSE \E a, b \in 0..Len(line) :
                  /\ a + b <= Len(line)
                  /\ IsTrimOf(SubSeq(line, a + 1, Len(line) - b), line)
                  /\ IsPutOf(new, old, SubSeq(line, a + 1, Len(line) - b), Present)
    ELSE \E c \in 1..Len(line) :
             /\ line[c] = ":" /\ \A j \in 1..(c - 1) : line[j] # ":"
             /\ \E k \in DOMAIN new :
                    /\ IsTrimOf(k, SubSeq(line, 1, c - 1))
                    /\ IsTrimOf(new[k], SubSeq(line, c + 1, Len(line)))
                    /\ IsPutOf(new, old, k, new[k])

\* C10: every header line delivered to the header callback changes the header map
\* by the rule (no colon and blank: unchanged; no colon: trimmed line -> "present";
\* colon: trimmed text before the first colon -> trimmed text after it, replacing
\* an earlier value); delivering the same line again would leave the map as it is;
\* and the callback reports the whole line as consumed.
C10_HeaderLineParsing ==
    [][hdrCount' = hdrCount + 1 =>
           /\ lastCall'.fn = "header"
           /\ HeaderLineRule(response.headers, lastCall'.data, response'.headers)
           /\ CurlHeaderCallback(lastCall'.data, response').response.headers
                  = response'.headers
           /\ lastCall'.ret = Len(lastCall'.data)
           /\ ~aborted']_vars

\* Two header lines have been delivered, the last one "k::": the map holds the
\* text before its first colon as key and the text after it, ":", as value.
C10_Witness ==
    /\ phase = "Executing"
    /\ hdrCount = 2
    /\ DOMAIN response.headers = {<<"k">>}
    /\ response.headers[<<"k">>] = <<":">>
    /\ lastCall = [fn |-> "header", data |-> <<"k", ":", ":">>, len |-> 3, ret |-> 3]

\* The sum of the field f over the invocations ps.
RECURSIVE Total(_, _)
Total(ps, f) == IF ps = <<>> THEN 0 ELSE Head(ps)[f] + Total(Tail(ps), f)

\* The offset and the remaining length before the i-th invocation, by the rule.
OffsetBefore(i) == Total(SubSeq(pulls, 1, i - 1), "ret")

RemainingBefore(i) == Len(uploadMem) - OffsetBefore(i)

ProgressRegistered(sink) ==
    /\ IsSet("XFERINFOFUNCTION") /\ opts["XFERINFOFUNCTION"] = "CurlTransferCallback"
    /\ IsSet("XFERINFODATA") /\ opts["XFERINFODATA"] = sink
    /\ IsSet("NOPROGRESS") /\ opts["NOPROGRESS"] = 0

\* C12: on a Get with a progress sink, the callback is registered and every
\* notification of the engine reaches the sink with the engine's four counters, in
\* order, and the sink's return value goes back to the engine; once the sink has
\* returned non-zero the transfer is aborted and the call returns status -1.  On
\* a Get without a sink, and on Post, no progress callback is registered and the
\* sink is never called.
C12_ProgressRelay ==
    /\ Configured /\ verb = "Get" /\ progressSink # NULL =>
           /\ ProgressRegistered(progressSink)
           /\ lastCall.fn = "progress" =>
                  sinkInfo = [args |-> lastCall.data, ret |-> lastCall.ret]
           /\ sinkInfo.ret # 0 => aborted /\ lastCall.fn = "progress"
           /\ aborted /\ lastCall.fn = "progress" => sinkInfo.ret # 0
    /\ TransferDone /\ sinkInfo.ret # 0 =>
           /\ curlResponse = CURLE_ABORTED_BY_CALLBACK
           /\ response.code = -1
    /\ Configured /\ (verb = "Post" \/ progressSink = NULL) =>
           /\ ~IsSet("XFERINFOFUNCTION") /\ ~IsSet("XFERINFODATA")
           /\ ~IsSet("NOPROGRESS")
           /\ lastCall.fn # "progress"
           /\ sinkInfo = NoSinkCall

\* A Get with a progress sink received a chunk, then the sink returned 1 at the
\* notification (2, 2, 4, 3), and the call has returned status -1.
C12_Witness ==
    /\ TransferDone /\ verb = "Get" /\ progressSink # NULL
    /\ Len(delivered) = 1
    /\ lastCall = [fn |-> "progress", data |-> <<2, 2, 4, 3>>, len |-> 0, ret |-> 1]
    /\ sinkInfo = [args |-> <<2, 2, 4, 3>>, ret |-> 1]
    /\ response.code = -1

\* The status code a completed transfer attempt leaves: the engine's protocol
\* status after success, -1 after failure.
StatusAfter(result, code) == IF result = CURLE_OK THEN code ELSE -1

\* The rules of C13 that hold of every step whichever way a call starts: the
\* states after Configured follow in order, the blocking transfer is invoked on
\* the step from Configured to Executing and on no other, and the status code is 0
\* until the step from Executing to Finalized, which assigns it, cleanup included.
LifecycleRules ==
    /\ phase = "Configured" /\ phase' # phase =>
           phase' = "Executing" /\ api'.perform = api.perform + 1
    /\ phase = "Executing" /\ phase' # phase => phase' = "Finalized"
    /\ phase = "Finalized" /\ phase' # phase => phase' = "Idle"
    /\ phase' # "Idle" /\ api'.perform # api.perform =>
           phase = "Configured" /\ phase' = "Executing"
    /\ phase' \in {"Idle", "Configured", "Executing"} => response'.code = 0
    /\ phase = "Executing" /\ phase' = "Finalized" =>
           /\ api'.perform = 1
           /\ response'.code = StatusAfter(curlResponse', httpCode)
    /\ phase = "Finalized" /\ phase' = "Finalized" => response'.code = response.code

\* C13, as claimed: each call moves through Idle, Configured, Executing,
\* Finalized in that order and invokes the blocking transfer exactly once; the
\* status code is 0 until the transfer attempt has completed and is then assigned
\* once, the engine's status on success, -1 on failure, cleanup not changing it.
C13_CallLifecycle ==
    [][/\ phase = "Idle" /\ phase' # phase => phase' = "Configured"
       /\ phase' = "Finalized" => api'.perform = 1
       /\ LifecycleRules]_vars

\* C13, amended: a call whose handle is allocated moves through Idle, Configured,
\* Executing, Finalized in that order and invokes the blocking transfer exactly
\* once, its status code 0 until the transfer attempt has completed and then
\* assigned once (the engine's status on success, -1 on failure, cleanup not
\* changing it); a call whose handle cannot be allocated goes from Idle to
\* Finalized at once, invokes no transfer, and its status code stays 0.
C13_CallLifecycleWithHandle ==
    [][/\ phase = "Idle" /\ phase' # phase =>
              \/ phase' = "Configured" /\ response'.curl # NULL /\ api'.perform = 0
              \/ /\ phase' = "Finalized" /\ response'.curl = NULL
                 /\ api'.perform = 0 /\ response'.code = 0
       /\ phase' = "Finalized" => api'.perform = IF api'.easy_cleanup = 1 THEN 1 ELSE 0
       /\ LifecycleRules]_vars

\* A Post has gone through its transfer and returned the engine's status 404, read
\* with the one call of the status getter.
C13_Witness ==
    /\ TransferDone /\ verb = "Post"
    /\ curlResponse = CURLE_OK /\ api.getinfo = 1
    /\ httpCode = 404 /\ response.code = 404

\* C14: every body chunk delivered to the body callback is written to the output
\* sink, after what the sink holds, if a sink is attached to the response and the
\* engine's status code is 200, and is appended to the body otherwise (no sink, or
\* any other status); the destination not chosen is left as it was; and the
\* callback reports the whole chunk as consumed, so the transfer goes on.
C14_ChunkDestination ==
    [][Len(delivered') = Len(delivered) + 1 =>
           /\ lastCall'.fn = "write"
           /\ delivered'[Len(delivered')] = [data |-> lastCall'.data, code |-> httpCode]
           /\ IF response.file # NULL /\ httpCode = 200
              THEN /\ fileData' = fileData \o lastCall'.data
                   /\ response'.body = response.body
              ELSE /\ response'.body = response.body \o lastCall'.data
                   /\ fileData' = fileData
           /\ lastCall'.ret = Len(lastCall'.data)
           /\ ~aborted']_vars

\* With a sink attached, the chunks "a" and "b" arrived at status 200: the sink
\* holds "ab", the second chunk after the first, and the body is empty.
C14_Witness ==
    /\ phase = "Executing" /\ response.file # NULL
    /\ delivered = <<[data |-> <<"a">>, code |-> 200], [data |-> <<"b">>, code |-> 200]>>
    /\ response.body = <<>>
    /\ fileData = <<"a", "b">>
    /\ lastCall = [fn |-> "write", data |-> <<"b">>, len |-> 1, ret |-> 1]

\* C15: when a Post made with a non-empty form returns, after a successful and
\* after a failed transfer, the multipart list it built (one entry per field) has
\* been freed: no list the call created is still allocated.
C15_FormListFreed ==
    TransferDone /\ verb = "Post" /\ IsSet("HTTPPOST")
        => api.formfree = 1 /\ DOMAIN formHeap = {}

\* The auth options set on the call's handle.
AuthOptionsSet == [o \in DOMAIN opts \cap {"HTTPAUTH", "USERPWD"} |-> opts[o]]

\* C16: nothing orders the accesses to the credential.  What a call sets as auth
\* options is what its own reads saw, whatever the credential is before or
\* after: a call whose test of the credential falls between the clear and the
\* append of another thread's SetAuth sees it empty and sets no auth options; and
\* a step of SetAuth or ClearAuth taken once the call is configured leaves the
\* call's auth options as they are.
C16_AuthRace ==
    [][/\ phase' \in {"Configured", "Executing"} =>
              /\ seen'.lengthAt = "cleared" =>
                     /\ seen'.length = 0
                     /\ ~IsSet("HTTPAUTH")' /\ ~IsSet("USERPWD")'
              /\ AuthOptionsSet' =
                     IF seen'.length > 0
                     THEN [o \in {"HTTPAUTH", "USERPWD"} |->
                              IF o = "HTTPAUTH" THEN CURLAUTH_BASIC ELSE seen'.value]
                     ELSE [o \in {} |-> 0]
       /\ phase \in {"Configured", "Executing"} /\ authThread' # authThread =>
              AuthOptionsSet' = AuthOptionsSet /\ opts' = opts]_vars

\* A call is configured without auth options although the credential was "u:p"
\* before another thread's SetAuth and is ":p" now that it has finished: the
\* call tested the credential between that SetAuth's clear and its append.
C16_Witness ==
    /\ phase = "Configured"
    /\ seen.lengthAt = "cleared" /\ seen.before = <<"u", ":", "p">>
    /\ authThread.pc = "out" /\ authThread.before = <<"u", ":", "p">>
    /\ UserPassword = <<":", "p">>
    /\ ~IsSet("HTTPAUTH") /\ ~IsSet("USERPWD")

====
